---- MODULE Spec2Model ----
(***************************************************************************)
(* SafeSched (src/app.py): the functions of the scheduling assistant,      *)
(* parse_request (Agent A), get_free_busy_for_participant and              *)
(* compute_candidate_slots (Agent B), each called directly on the session  *)
(* state it reads.                                                         *)
(*                                                                         *)
(* The script around them is not a part of the model.  The f-string of     *)
(* line 257 ends at the end of its line without its closing quote, so      *)
(* compiling src/app.py stops with SyntaxError and no script run takes     *)
(* place: the widget handlers of lines 186-314 (Send, the slot buttons,    *)
(* the consent box, Finalize & Book) never run, and no step of the         *)
(* program appends a booking or a busy interval.  The calendars a call     *)
(* reads are the ones set-up seeding has filled.                           *)
(*                                                                         *)
(* Time.  An aware datetime is an integer: the reading of the wall clock   *)
(* of Asia/Kolkata (TIMEZONE_DEFAULT) at that instant, counted from 00:00  *)
(* of day 0, which is a Monday.  The reading s seconds and u microseconds  *)
(* is the integer s * Second + k, where u is the (k+1)-th entry of Micros, *)
(* the increasing list of the microsecond fields the clock readings of the *)
(* model have: the order of datetimes and the addition of timedeltas,      *)
(* which are whole seconds everywhere in the program, are those of the     *)
(* integers.  The zone a datetime carries is kept beside it as the time    *)
(* the zone is ahead of Asia/Kolkata; the wall clock of the zone reads     *)
(* instant + offset.  A naive datetime is the reading itself.              *)
(*                                                                         *)
(* Text.  A string the program splits, strips and title-cases is a         *)
(* sequence of one-character strings.  The regular expressions of          *)
(* parse_request work on the whole input; the model takes an input as the  *)
(* record of what they find in it (see parse_request below).               *)
(***************************************************************************)
EXTENDS Integers, Sequences, FiniteSets, TLC

VARIABLES
    sim_calendars,    \* st.session_state.sim_calendars: name -> <<s, e>> list
    last_parsed,      \* the parsed request of the call: <<>> while absent, else <<parsed>>
    now,              \* the clock: the reading datetime.now() gives
    slot_step_mins,   \* keyword arguments of the compute_candidate_slots call
    work_start,
    work_end,
    ret,              \* what the last direct call of a function gave back
    seeded            \* how many intervals set-up seeding has appended

vars == <<sim_calendars, last_parsed, now, slot_step_mins, work_start, work_end,
          ret, seeded>>

---------------------------------------------------------------------------
(* datetime arithmetic *)

\* the microsecond fields of the clock readings, in increasing order
Micros == <<0, 1, 456789, 999999>>

\* timedelta(seconds=1): a second holds one integer per entry of Micros
Second == Len(Micros)
Minute == 60 * Second
Hour == 60 * Minute
Day == 24 * Hour

\* the part of a reading that stands for the microsecond field u
us(u) == (CHOOSE k \in 1..Len(Micros) : Micros[k] = u) - 1

\* dt.microsecond of a reading
microsecond(t) == Micros[(t % Second) + 1]

\* Python's None, for an absent number
None == -1

\* dt.hour of a wall clock reading
hour(t) == (t % Day) \div Hour

\* dt.weekday() of a wall clock reading, 0 = Monday
weekday(t) == (t \div Day) % 7

\* dt.replace(hour=h, minute=0, second=0, microsecond=0) of a wall clock reading
replace_hour(t, h) == (t \div Day) * Day + h * Hour

\* the same three for the datetime of instant t in the zone off seconds
\* ahead of Asia/Kolkata (off = 0 for a naive datetime)
hour_in(t, off) == hour(t + off)
weekday_in(t, off) == weekday(t + off)
replace_hour_in(t, h, off) == replace_hour(t + off, h) - off

\* Python's max and min on datetimes
max(a, b) == IF a >= b THEN a ELSE b
min(a, b) == IF a <= b THEN a ELSE b

\* list slicing xs[:n]
Prefix(xs, n) == SubSeq(xs, 1, min(n, Len(xs)))

\* the elements of a list
Range(xs) == {xs[i] : i \in 1..Len(xs)}

---------------------------------------------------------------------------
(* Strings *)

Lowers == <<"a", "b", "c", "d", "e", "f", "g", "h", "i", "j", "k", "l", "m",
            "n", "o", "p", "q", "r", "s", "t", "u", "v", "w", "x", "y", "z">>
Uppers == <<"A", "B", "C", "D", "E", "F", "G", "H", "I", "J", "K", "L", "M",
            "N", "O", "P", "Q", "R", "S", "T", "U", "V", "W", "X", "Y", "Z">>

\* a cased character
IsLetter(c) == c \in Range(Lowers) \cup Range(Uppers)

\* str.upper and str.lower on one character
Upper(c) ==
    IF c \in Range(Lowers) THEN Uppers[CHOOSE i \in 1..26 : Lowers[i] = c] ELSE c
Lower(c) ==
    IF c \in Range(Uppers) THEN Lowers[CHOOSE i \in 1..26 : Uppers[i] = c] ELSE c

\* str.title(): a letter that follows no letter becomes upper case, every
\* other letter lower case
title(s) ==
    [i \in 1..Len(s) |->
        IF i = 1 \/ ~IsLetter(s[i - 1]) THEN Upper(s[i]) ELSE Lower(s[i])]

\* the literals 'You', 'Priya', 'Alex' and "Meeting" of the source, and the
\* name of a person without a start-up calendar
You == <<"Y", "o", "u">>
Priya == <<"P", "r", "i", "y", "a">>
Alex == <<"A", "l", "e", "x">>
Meeting == <<"M", "e", "e", "t", "i", "n", "g">>
Sam == <<"S", "a", "m">>

---------------------------------------------------------------------------
(* The demo calendars of the session state, lines 37-47 *)

\* make_busy(start_offset_hours, duration_hours) relative to the start-up
\* time t; the offsets are given as timedeltas (1.5 h = 90 * Minute)
make_busy(t, start_offset, duration) == <<t + start_offset, t + start_offset + duration>>

InitCalendars(t) ==
    [n \in {You, Priya, Alex} |->
        CASE n = You   -> <<make_busy(t, 2 * Hour, Hour), make_busy(t, 26 * Hour, 2 * Hour)>>
          [] n = Priya -> <<make_busy(t, 3 * Hour, 90 * Minute), make_busy(t, 20 * Hour, Hour)>>
          [] n = Alex  -> <<make_busy(t, 5 * Hour, 2 * Hour), make_busy(t, 28 * Hour, Hour)>>]

---------------------------------------------------------------------------
(* Agent B: get_free_busy_for_participant, lines 124-132 *)

\* sim_calendars.get(name, [])
CalGet(cal, name) == IF name \in DOMAIN cal THEN cal[name] ELSE <<>>

\* Skipped with the end points excluded (half-open intervals)
SkippedTouching(iv, window_start, window_end) ==
    iv[2] <= window_start \/ iv[1] >= window_end

\* the test of line 129: the stored interval is skipped
Skipped(iv, window_start, window_end) == iv[2] < window_start \/ iv[1] > window_end

\* line 131: the interval clipped to the window
Clip(iv, window_start, window_end) == <<max(iv[1], window_start), min(iv[2], window_end)>>

\* the loop of lines 127-132 over the list busy
RECURSIVE FreeBusyLoop(_, _, _)
FreeBusyLoop(busy, window_start, window_end) ==
    IF busy = <<>> THEN <<>>
    ELSE IF Skipped(Head(busy), window_start, window_end)
         THEN FreeBusyLoop(Tail(busy), window_start, window_end)
         ELSE <<Clip(Head(busy), window_start, window_end)>>
              \o FreeBusyLoop(Tail(busy), window_start, window_end)

get_free_busy_for_participant(cal, name, window_start, window_end) ==
    FreeBusyLoop(CalGet(cal, name), window_start, window_end)

---------------------------------------------------------------------------
(* Agent B: compute_candidate_slots, lines 135-157 *)

\* parsed['participants'] + ['You']
Attendees(parsed) == parsed.participants \o <<You>>

\* timedelta(minutes=parsed['duration_mins'])
DurationOf(parsed) == parsed.duration_mins * Minute

\* lines 148-153: some attendee has a busy interval in [cur, cur + duration]
Conflict(cal, parsed, cur) ==
    \E i \in 1..Len(Attendees(parsed)) :
        get_free_busy_for_participant(cal, Attendees(parsed)[i], cur,
                                      cur + DurationOf(parsed)) # <<>>

\* InWorkHours without the test of the slot's end
InWorkHoursStartOnly(parsed, cur, ws, we) == hour_in(cur, parsed.utcoffset) >= ws

\* line 146: only inside work hours
InWorkHours(parsed, cur, ws, we) ==
    /\ hour_in(cur, parsed.utcoffset) >= ws
    /\ hour_in(cur + DurationOf(parsed), parsed.utcoffset) <= we

\* line 142: the cursor before the loop
FirstCursor(parsed, ws) == replace_hour_in(parsed.date_from, ws, parsed.utcoffset)

\* lines 144 and 156: the values cur takes in the while loop, in order; the
\* loop runs while cur + duration <= end and adds step minutes to cur each turn
Cursors(parsed, step, ws) ==
    IF FirstCursor(parsed, ws) + DurationOf(parsed) > parsed.date_to THEN <<>>
    ELSE [k \in 1..((parsed.date_to - DurationOf(parsed) - FirstCursor(parsed, ws))
                     \div (step * Minute) + 1) |->
             FirstCursor(parsed, ws) + (k - 1) * step * Minute]

\* lines 146-155: the cursor is appended to candidates
Accepted(cal, parsed, cur, ws, we) ==
    InWorkHours(parsed, cur, ws, we) /\ ~Conflict(cal, parsed, cur)

compute_candidate_slots(cal, parsed, step, ws, we) ==
    SelectSeq(Cursors(parsed, step, ws),
              LAMBDA cur : Accepted(cal, parsed, cur, ws, we))

\* A request whose window came from dateutil without a zone carries naive
\* datetimes, and line 129 compares them with the aware datetimes of the
\* calendars: the first such comparison raises TypeError.  The turn of the
\* loop at cursor cur reaches it when cur is inside work hours and some
\* attendee has a stored interval.
TurnRaises(cal, parsed, cur, ws, we) ==
    /\ parsed.naive
    /\ InWorkHours(parsed, cur, ws, we)
    /\ \E i \in 1..Len(Attendees(parsed)) : CalGet(cal, Attendees(parsed)[i]) # <<>>

\* the call raises TypeError: some turn of its loop does
ComputeRaises(cal, parsed, step, ws, we) ==
    /\ parsed.naive
    /\ \E cur \in Range(Cursors(parsed, step, ws)) :
          TurnRaises(cal, parsed, cur, ws, we)

---------------------------------------------------------------------------
(* Agent A: parse_request, lines 51-120 *)

(* An input is the record of what the patterns of parse_request find in    *)
(* text_lower:                                                             *)
(*   parts      the pieces of ptext.split(',') after 'and' became ',',     *)
(*              stripped, <<>> for a piece that strips to nothing; <<>>    *)
(*              when 'with ...' does not match                             *)
(*   mins, hrs  the number of the first '<N> min' / '<N> hr' match, or None*)
(*   tomorrow, next_week   whether the word occurs                         *)
(*   fuzzy      <<>> when dateutil raises or finds nothing, else <<d>>     *)
(*              with d the datetime it finds: d.at its wall clock reading, *)
(*              d.aware whether it has a zone, d.utcoffset the zone        *)
(*   topic      <<>> when the pattern of line 106 does not match, else     *)
(*              <<g>> with g the stripped group                            *)

\* lines 65-66: the non-empty pieces, title-cased
RECURSIVE TitledParts(_)
TitledParts(parts) ==
    IF parts = <<>> THEN <<>>
    ELSE (IF Head(parts) # <<>> THEN <<title(Head(parts))>> ELSE <<>>)
         \o TitledParts(Tail(parts))

\* lines 60-66 and 111-112
ParseParticipants(text) ==
    IF TitledParts(text.parts) = <<>> THEN <<Priya, Alex>>
    ELSE TitledParts(text.parts)

\* lines 69-76
ParseDuration(text) ==
    IF text.mins # None THEN text.mins
    ELSE IF text.hrs # None THEN text.hrs * 60
    ELSE 30

\* days_ahead taken modulo 7, so that a Monday stays where it is
NextMondayModulo(t, off) ==
    replace_hour_in(t + ((7 - weekday_in(t, off)) % 7) * Day, 9, off)

\* lines 85-86: the Monday a 'next week' window starts at
NextMonday(t, off) == replace_hour_in(t + (7 - weekday_in(t, off)) * Day, 9, off)

\* lines 79-102: <<date_from, date_to, naive, utcoffset>>, with t the
\* instant of now = datetime.now(tz) and off the offset of tz
ParseWindow(text, t, off) ==
    IF text.tomorrow
    THEN <<replace_hour_in(t + Day, 9, off), replace_hour_in(t + Day, 9, off) + Day,
           FALSE, off>>
    ELSE IF text.next_week
    THEN <<NextMonday(t, off), NextMonday(t, off) + 7 * Day, FALSE, off>>
    ELSE IF text.fuzzy # <<>>
    THEN IF text.fuzzy[1].aware
         THEN <<replace_hour(text.fuzzy[1].at, 9) - text.fuzzy[1].utcoffset,
                replace_hour(text.fuzzy[1].at, 9) - text.fuzzy[1].utcoffset + Day,
                FALSE, text.fuzzy[1].utcoffset>>
         ELSE <<replace_hour(text.fuzzy[1].at, 9), replace_hour(text.fuzzy[1].at, 9) + Day,
                TRUE, 0>>
    ELSE <<t, t + 7 * Day, FALSE, off>>

\* lines 104-108
ParseTitle(text) == IF text.topic # <<>> THEN title(text.topic[1]) ELSE Meeting

\* parse_request(text, default_tz): t is the instant of datetime.now(tz) at
\* the call, off the offset of the zone default_tz.  naive and utcoffset
\* belong to the datetimes date_from and date_to.
parse_request(text, t, off) ==
    [participants  |-> ParseParticipants(text),
     duration_mins |-> ParseDuration(text),
     date_from     |-> ParseWindow(text, t, off)[1],
     date_to       |-> ParseWindow(text, t, off)[2],
     title         |-> ParseTitle(text),
     naive         |-> ParseWindow(text, t, off)[3],
     utcoffset     |-> ParseWindow(text, t, off)[4]]

---------------------------------------------------------------------------
(* The append of a busy interval to a calendar *)

\* addBusy that assigns the one-interval list instead of appending to it
addBusyOverwrite(cal, p, iv) ==
    [n \in DOMAIN cal \cup {p} |-> IF n = p THEN <<iv>> ELSE cal[n]]

\* the append of one busy interval to p's calendar, as line 275 writes it:
\* sim_calendars.setdefault(p, []).append(iv)
addBusy(cal, p, iv) ==
    [n \in DOMAIN cal \cup {p} |->
        IF n = p THEN Append(CalGet(cal, n), iv) ELSE cal[n]]

---------------------------------------------------------------------------
(* Inputs of parse_request *)

\* the values of default_tz, those the select box of line 192 offers, each
\* as the time its zone is ahead of Asia/Kolkata: Asia/Kolkata, UTC,
\* Asia/Tokyo and America/Los_Angeles (in standard time, UTC-8)
Zones == {0, -(5 * Hour + 30 * Minute), 3 * Hour + 30 * Minute, -(13 * Hour + 30 * Minute)}

\* three request texts:
\*   'Tomorrow: 30 min for sync; with Priya and Alex.'
\*   'Tomorrow: 8 hrs with you,, sam.'
\*   'Meet 2024-01-04 about review.', that date being day 3
Texts ==
    { [parts |-> <<<<"p", "r", "i", "y", "a">>, <<"a", "l", "e", "x">>>>,
       mins |-> 30, hrs |-> None, tomorrow |-> TRUE, next_week |-> FALSE,
       fuzzy |-> <<>>, topic |-> <<<<"s", "y", "n", "c">>>>],
      [parts |-> <<<<"y", "o", "u">>, <<>>, <<"s", "a", "m">>>>,
       mins |-> None, hrs |-> 8, tomorrow |-> TRUE, next_week |-> FALSE,
       fuzzy |-> <<>>, topic |-> <<>>],
      [parts |-> <<>>, mins |-> None, hrs |-> None, tomorrow |-> FALSE,
       next_week |-> FALSE,
       fuzzy |-> <<[at |-> 3 * Day, aware |-> FALSE, utcoffset |-> 0]>>,
       topic |-> <<<<"r", "e", "v", "i", "e", "w">>>>] }

\* no function has been called yet
NoCall == [fn |-> "none"]

---------------------------------------------------------------------------
(* The functions of Agent B called directly: a store and a request are     *)
(* set up, intervals are seeded, then the functions are called.            *)

MaxSeeds == 1

\* day D of the direct calls
D == Day

At(h, m) == D + h * Hour + m * Minute

EmptyStore == [n \in {} |-> <<>>]

SlotStores ==
    { EmptyStore,
      [n \in {You} |-> <<<<At(9, 0), At(10, 0)>>>>],
      [n \in {You, Priya} |->
          IF n = You THEN <<<<At(10, 17), At(11, 17)>>>>
          ELSE <<<<At(9, 30), At(10, 0)>>, <<At(13, 0), At(14, 30)>>>>],
      InitCalendars(At(7, 30) + us(456789)) }

\* a request in the zone Asia/Kolkata
Request(ps, d, from, to) ==
    [participants |-> ps, duration_mins |-> d, date_from |-> from, date_to |-> to,
     title |-> Meeting, naive |-> FALSE, utcoffset |-> 0]

SlotRequests ==
    { Request(<<>>, 30, At(9, 0), At(18, 0)),
      Request(<<Priya>>, 60, At(9, 0), At(9, 0) + Day),
      Request(<<Priya, Sam>>, 600, At(9, 0), At(9, 0) + Day),
      Request(<<>>, 30, At(15, 17), At(12, 0)),
      Request(<<Priya>>, 0, At(9, 0), At(18, 0)),
      Request(<<>>, -30, At(9, 0), At(12, 0)),
      Request(<<>>, 30, At(9, 0), At(9, 0)),
      Request(<<Priya>>, 45, At(10, 17) + 23 * Second + us(456789),
              At(10, 17) + 23 * Second + us(456789) + 2 * Day),
      \* 09:00 to 09:00 of the next day in UTC
      [Request(<<Priya>>, 60, At(14, 30), At(14, 30) + Day)
          EXCEPT !.utcoffset = -(5 * Hour + 30 * Minute)],
      \* naive datetimes, as line 95 makes them from a date without a zone
      [Request(<<Priya>>, 60, At(9, 0), At(9, 0) + Day) EXCEPT !.naive = TRUE] }

\* <<slot_step_mins, work_start, work_end>>
SlotConfigs == {<<30, 9, 18>>, <<45, 8, 12>>, <<60, 0, 23>>, <<20, 14, 17>>}

SeedNames == {You, Sam}
SeedIntervals == {<<At(11, 0), At(12, 0)>>, <<At(17, 45), At(9, 10) + Day>>}

FreeBusyNames == {You, Priya, Sam}
FreeBusyWindows ==
    { <<At(9, 0), At(9, 30)>>, <<At(10, 0), At(10, 30)>>,
      <<At(9, 45), At(13, 15)>>, <<At(12, 0), At(9, 0)>> }

InitSlots ==
    /\ now = At(7, 30) + us(456789)
    /\ sim_calendars \in SlotStores
    /\ \E r \in SlotRequests : last_parsed = <<r>>
    /\ \E c \in SlotConfigs :
          slot_step_mins = c[1] /\ work_start = c[2] /\ work_end = c[3]
    /\ ret = NoCall
    /\ seeded = 0

\* set-up seeding: one more busy interval for p
Seed(p, iv) ==
    /\ ret = NoCall
    /\ seeded < MaxSeeds
    /\ seeded' = seeded + 1
    /\ sim_calendars' = addBusy(sim_calendars, p, iv)
    /\ UNCHANGED <<last_parsed, now, slot_step_mins, work_start, work_end, ret>>

\* the result record of a call of compute_candidate_slots on the store cal
ComputeResult(cal) ==
    IF ComputeRaises(cal, last_parsed[1], slot_step_mins, work_start, work_end)
    THEN [fn |-> "compute_candidate_slots", outcome |-> "TypeError"]
    ELSE [fn |-> "compute_candidate_slots", outcome |-> "returned",
          value |-> compute_candidate_slots(cal, last_parsed[1],
                                            slot_step_mins, work_start, work_end)]

\* compute_candidate_slots(parsed, slot_step_mins, work_start, work_end)
CallCompute ==
    /\ ret' = ComputeResult(sim_calendars)
    /\ UNCHANGED <<sim_calendars, last_parsed, now, slot_step_mins, work_start,
                   work_end, seeded>>

\* get_free_busy_for_participant(name, w[1], w[2])
CallFreeBusy(name, w) ==
    /\ ret' = [fn |-> "get_free_busy_for_participant", name |-> name,
               window_start |-> w[1], window_end |-> w[2],
               value |-> get_free_busy_for_participant(sim_calendars, name, w[1], w[2])]
    /\ UNCHANGED <<sim_calendars, last_parsed, now, slot_step_mins, work_start,
                   work_end, seeded>>

NextSlots ==
    \/ \E p \in SeedNames, iv \in SeedIntervals : Seed(p, iv)
    \/ CallCompute
    \/ \E name \in FreeBusyNames, w \in FreeBusyWindows : CallFreeBusy(name, w)

SpecSlots == InitSlots /\ [][NextSlots]_vars

\* compute_candidate_slots has returned a list
Returned == ret.fn = "compute_candidate_slots" /\ ret.outcome = "returned"

\* the duration of the request of the call, as a timedelta
Duration == DurationOf(last_parsed[1])

\* C5: with You busy 09:00-10:00 on day D, duration 30, window D 09:00 to
\* D 18:00, no participants and the default configuration, the first
\* candidate is D 10:00.
C5_FirstCandidateAtBusyEnd ==
    (/\ Returned
     /\ sim_calendars = [n \in {You} |-> <<<<At(9, 0), At(10, 0)>>>>]
     /\ last_parsed[1] = Request(<<>>, 30, At(9, 0), At(18, 0))
     /\ <<slot_step_mins, work_start, work_end>> = <<30, 9, 18>>)
    => ret.value # <<>> /\ Head(ret.value) = At(10, 0)

\* C6: every candidate start c has work_start <= c.hour,
\* (c + duration).hour <= work_end and c + duration <= date_to.
C6_WindowContainment ==
    Returned =>
        \A c \in Range(ret.value) :
            /\ work_start <= hour_in(c, last_parsed[1].utcoffset)
            /\ hour_in(c + Duration, last_parsed[1].utcoffset) <= work_end
            /\ c + Duration <= last_parsed[1].date_to

\* a call returned candidates, for a meeting longer than the working day
C6_Witness ==
    /\ Returned
    /\ Len(ret.value) >= 2
    /\ Duration > (work_end - work_start) * Hour

\* xs is a subsequence of ys
RECURSIVE IsSubseq(_, _)
IsSubseq(xs, ys) ==
    IF xs = <<>> THEN TRUE
    ELSE IF ys = <<>> THEN FALSE
    ELSE IF Head(xs) = Head(ys) THEN IsSubseq(Tail(xs), Tail(ys))
    ELSE IsSubseq(xs, Tail(ys))

\* C7: appending one more busy interval to a calendar never adds a
\* candidate: when compute_candidate_slots returns a list after the append,
\* it returned one before it, for the same request and configuration, and
\* the list after the append is a subsequence of the list before it.  (A
\* call that raises after the append returns no candidate at all.)
C7_ConflictMonotone ==
    [][sim_calendars' # sim_calendars =>
          LET before == ComputeResult(sim_calendars)
              after  == ComputeResult(sim_calendars')
          IN after.outcome = "returned" =>
                /\ before.outcome = "returned"
                /\ IsSubseq(after.value, before.value)]_vars

\* an interval was seeded into a calendar that already had one, and the
\* request has lost a candidate by it but kept others
C7_Witness ==
    /\ seeded = 1
    /\ \E n \in DOMAIN sim_calendars :
          /\ Len(sim_calendars[n]) >= 2
          /\ sim_calendars[n][Len(sim_calendars[n])] \in SeedIntervals
          /\ LET before == ComputeResult([sim_calendars EXCEPT ![n] =
                                             SubSeq(@, 1, Len(@) - 1)])
                 after  == ComputeResult(sim_calendars)
             IN /\ before.outcome = "returned"
                /\ after.outcome = "returned"
                /\ after.value # <<>>
                /\ Len(after.value) < Len(before.value)

\* the indices of the stored intervals that overlap [ws, we]
KeptIdx(busy, ws, we) ==
    {i \in 1..Len(busy) : busy[i][2] >= ws /\ busy[i][1] <= we}

\* C8: get_free_busy_for_participant returns, in insertion order, exactly
\* the stored intervals (s, e) with neither e < ws nor s > we, each as
\* (max(s, ws), min(e, we)); each returned interval starts no earlier than
\* ws and ends no later than we (and has both ends in [ws, we] when
\* ws <= we); an unknown participant yields the empty list.
C8_FreeBusyClipped ==
    ret.fn = "get_free_busy_for_participant" =>
        LET busy == CalGet(sim_calendars, ret.name)
            ws == ret.window_start
            we == ret.window_end
            K == KeptIdx(busy, ws, we)
            v == ret.value
        IN /\ Len(v) = Cardinality(K)
           /\ \A k \in 1..Len(v) :
                 \E i \in K :
                    /\ Cardinality({j \in K : j < i}) = k - 1
                    /\ v[k][1] = (IF busy[i][1] > ws THEN busy[i][1] ELSE ws)
                    /\ v[k][2] = (IF busy[i][2] < we THEN busy[i][2] ELSE we)
           /\ \A k \in 1..Len(v) :
                 /\ ws <= v[k][1] /\ v[k][2] <= we
                 /\ ws <= we => (v[k][1] <= we /\ ws <= v[k][2])
           /\ (ret.name \notin DOMAIN sim_calendars => v = <<>>)

\* a call returned some but not all stored intervals, one of them clipped
C8_Witness ==
    /\ ret.fn = "get_free_busy_for_participant"
    /\ ret.value # <<>>
    /\ Len(ret.value) < Len(CalGet(sim_calendars, ret.name))
    /\ \E k \in 1..Len(ret.value) :
          ret.value[k] \notin Range(CalGet(sim_calendars, ret.name))

\* C9: compute_candidate_slots raises InvalidRequest whenever
\* duration_mins <= 0 or date_to <= date_from.
C9_InvalidRequestRaised ==
    (/\ ret.fn = "compute_candidate_slots"
     /\ (Duration <= 0 \/ last_parsed[1].date_to <= last_parsed[1].date_from))
    => ret.outcome = "InvalidRequest"

\* C10: compute_candidate_slots returns the empty list whenever
\* date_to <= date_from and whenever duration_mins > (work_end - work_start) * 60.
C10_EmptyForDegenerate ==
    (/\ Returned
     /\ \/ last_parsed[1].date_to <= last_parsed[1].date_from
        \/ Duration > (work_end - work_start) * Hour)
    => ret.value = <<>>

\* C14: no candidate starts before work_start:00 or ends after work_end:00
\* of the calendar day it starts on.
C14_InsideWorkingHours ==
    Returned =>
        \A c \in Range(ret.value) :
            /\ replace_hour_in(c, work_start, last_parsed[1].utcoffset) <= c
            /\ c + Duration <= replace_hour_in(c, work_end, last_parsed[1].utcoffset)

\* C15: every candidate lies inside the search window:
\* date_from <= start and start + duration <= date_to.
C15_InsideWindow ==
    Returned =>
        \A c \in Range(ret.value) :
            /\ last_parsed[1].date_from <= c
            /\ c + Duration <= last_parsed[1].date_to

---------------------------------------------------------------------------
(* The while loop of compute_candidate_slots run turn by turn, lines       *)
(* 142-157.  ret holds the locals of the call: cur and candidates.         *)

\* the configurations of the loop runs: those of the direct calls and two
\* small steps, <<slot_step_mins, work_start, work_end>>
LoopConfigs == SlotConfigs \cup {<<1, 9, 18>>, <<7, 9, 18>>}

\* cur += timedelta(minutes=slot_step_mins) with the increment left out
AdvanceStuck(cur, step) == cur

\* line 156: cur += timedelta(minutes=slot_step_mins)
Advance(cur, step) == cur + step * Minute

\* lines 137-143
InitLoop ==
    /\ now = At(7, 30) + us(456789)
    /\ sim_calendars \in SlotStores
    /\ \E r \in SlotRequests : last_parsed = <<r>>
    /\ \E c \in LoopConfigs :
          slot_step_mins = c[1] /\ work_start = c[2] /\ work_end = c[3]
    /\ ret = [fn |-> "loop", pc |-> "while",
              cur |-> FirstCursor(last_parsed[1], work_start), candidates |-> <<>>]
    /\ seeded = 0

\* lines 144-156: one turn of the loop; the turn that reaches line 129 with
\* a naive cursor and a stored interval ends the call with TypeError
LoopTurn ==
    /\ ret.pc = "while"
    /\ ret.cur + DurationOf(last_parsed[1]) <= last_parsed[1].date_to
    /\ ret' = IF TurnRaises(sim_calendars, last_parsed[1], ret.cur,
                            work_start, work_end)
              THEN [ret EXCEPT !.pc = "TypeError"]
              ELSE [ret EXCEPT
                      !.candidates =
                          IF Accepted(sim_calendars, last_parsed[1], ret.cur,
                                      work_start, work_end)
                          THEN Append(@, ret.cur) ELSE @,
                      !.cur = Advance(@, slot_step_mins)]
    /\ UNCHANGED <<sim_calendars, last_parsed, now, slot_step_mins, work_start,
                   work_end, seeded>>

\* lines 144 and 157: the loop test fails and candidates is returned
LoopReturn ==
    /\ ret.pc = "while"
    /\ ~(ret.cur + DurationOf(last_parsed[1]) <= last_parsed[1].date_to)
    /\ ret' = [ret EXCEPT !.pc = "done"]
    /\ UNCHANGED <<sim_calendars, last_parsed, now, slot_step_mins, work_start,
                   work_end, seeded>>

NextLoop == LoopTurn \/ LoopReturn

\* a call that has started keeps running
SpecLoop == InitLoop /\ [][NextLoop]_vars /\ WF_vars(NextLoop)

StrictlyIncreasing(xs) == \A i \in 1..(Len(xs) - 1) : xs[i] < xs[i + 1]

\* C11: the candidates are strictly increasing in time at every turn of the
\* loop, the loop ends (it returns, or the call raises TypeError where
\* compute_candidate_slots raises it), and what it returns is the list of
\* compute_candidate_slots, for every request and every slot_step_mins >= 1.
C11_IncreasingAndTerminates ==
    /\ [](/\ StrictlyIncreasing(ret.candidates)
          /\ ret.pc = "done" =>
                /\ ~ComputeRaises(sim_calendars, last_parsed[1],
                                  slot_step_mins, work_start, work_end)
                /\ ret.candidates =
                      compute_candidate_slots(sim_calendars, last_parsed[1],
                                              slot_step_mins, work_start, work_end)
          /\ ret.pc = "TypeError" =>
                ComputeRaises(sim_calendars, last_parsed[1],
                              slot_step_mins, work_start, work_end))
    /\ <>(ret.pc \in {"done", "TypeError"})

\* a loop run with step 7 has returned several candidates
C11_Witness ==
    /\ ret.fn = "loop"
    /\ ret.pc = "done"
    /\ slot_step_mins = 7
    /\ Len(ret.candidates) >= 3

---------------------------------------------------------------------------
(* Direct calls of parse_request, lines 51-120 *)

\* the reference times datetime.now(tz) of the calls: every weekday, at
\* midnight, in the last second before 09:00, in the day and in the last
\* microsecond
ParseClock ==
    {d * Day + m : d \in 0..6,
                   m \in {0, 8 * Hour + 59 * Minute + 59 * Second,
                          10 * Hour + 17 * Minute + 23 * Second + us(456789), Day - 1}}

\* the inputs of Texts and
\*   'Next week: 30 min for sync; with Priya.'
\*   '2 hrs next week, 4 jan', that date being day 3
\*   'tomorrow or next week about review; with alex.'
\*   'hello'
\*   'meet 2024-01-04 10:00 UTC to plan budget'
\*   'go to  !'
\*   'Schedule a 30 min sync with Priya and Alex next week', the example of
\*   line 200
ParseTexts ==
    Texts \cup
    { [parts |-> <<<<"p", "r", "i", "y", "a">>>>, mins |-> 30, hrs |-> None,
       tomorrow |-> FALSE, next_week |-> TRUE, fuzzy |-> <<>>,
       topic |-> <<<<"s", "y", "n", "c">>>>],
      [parts |-> <<>>, mins |-> None, hrs |-> 2, tomorrow |-> FALSE, next_week |-> TRUE,
       fuzzy |-> <<[at |-> 3 * Day, aware |-> FALSE, utcoffset |-> 0]>>, topic |-> <<>>],
      [parts |-> <<<<"a", "l", "e", "x">>>>, mins |-> None, hrs |-> None,
       tomorrow |-> TRUE, next_week |-> TRUE, fuzzy |-> <<>>,
       topic |-> <<<<"r", "e", "v", "i", "e", "w">>>>],
      [parts |-> <<>>, mins |-> None, hrs |-> None, tomorrow |-> FALSE,
       next_week |-> FALSE, fuzzy |-> <<>>, topic |-> <<>>],
      [parts |-> <<>>, mins |-> None, hrs |-> None, tomorrow |-> FALSE,
       next_week |-> FALSE,
       fuzzy |-> <<[at |-> 3 * Day + 10 * Hour, aware |-> TRUE,
                    utcoffset |-> -(5 * Hour + 30 * Minute)]>>,
       topic |-> <<<<"p", "l", "a", "n", " ", "b", "u", "d", "g", "e", "t">>>>],
      [parts |-> <<>>, mins |-> None, hrs |-> None, tomorrow |-> FALSE,
       next_week |-> FALSE, fuzzy |-> <<>>, topic |-> <<<<>>>>],
      [parts |-> <<<<"p", "r", "i", "y", "a">>,
                   <<"a", "l", "e", "x", " ", "n", "e", "x", "t", " ", "w", "e", "e", "k">>>>,
       mins |-> 30, hrs |-> None, tomorrow |-> FALSE, next_week |-> TRUE,
       fuzzy |-> <<>>, topic |-> <<>>] }

InitParse ==
    /\ now \in ParseClock
    /\ sim_calendars = InitCalendars(now)
    /\ last_parsed = <<>>
    /\ slot_step_mins = 30
    /\ work_start = 9
    /\ work_end = 18
    /\ ret = NoCall
    /\ seeded = 0

\* parse_request(text, default_tz=tz), called at the time now
CallParse(text, tz) ==
    /\ ret' = [fn |-> "parse_request", text |-> text, tz |-> tz,
               value |-> parse_request(text, now, tz)]
    /\ UNCHANGED <<sim_calendars, last_parsed, now, slot_step_mins, work_start,
                   work_end, seeded>>

NextParse == \E text \in ParseTexts, tz \in Zones : CallParse(text, tz)

SpecParse == InitParse /\ [][NextParse]_vars

\* a call of parse_request on a text with 'next week' and without 'tomorrow'
NextWeekParsed ==
    /\ ret.fn = "parse_request"
    /\ ret.text.next_week
    /\ ~ret.text.tomorrow

\* C20: for a 'next week' text without 'tomorrow', on every weekday of the
\* reference time, date_from is 09:00 of a Monday 1 to 7 days after the
\* reference day and date_to is 7 days after date_from (days and times of
\* day as the clock of the zone of the call shows them).
C20_NextWeekMonday ==
    NextWeekParsed =>
        /\ weekday_in(ret.value.date_from, ret.tz) = 0
        /\ (ret.value.date_from + ret.tz) % Day = 9 * Hour
        /\ ((ret.value.date_from + ret.tz) \div Day) - ((now + ret.tz) \div Day) \in 1..7
        /\ ret.value.date_to = ret.value.date_from + 7 * Day

\* a 'next week' text was parsed on a Monday and the window starts a week later
C20_Witness ==
    /\ NextWeekParsed
    /\ weekday_in(now, ret.tz) = 0
    /\ ret.tz # 0
    /\ ret.value.date_from = replace_hour_in(now, 9, ret.tz) + 7 * Day

====
